---- MODULE Spec2Model ----
(***************************************************************************)
(* DailyPlanner: the planner page (HomePage, src/app/about/page.js from    *)
(* line 20 on) and its chat interpreter (Chatbot, src/unnamed/part_000).   *)
(*                                                                         *)
(* Strings are sequences of one-character strings; a whole word that the   *)
(* code only ever compares as a unit ("create", "low", a well-shaped date) *)
(* is one element.  A JSON value read from a tool-call is a tagged record. *)
(***************************************************************************)
EXTENDS Naturals, Sequences, FiniteSets, TLC

VARIABLES
    byDate,     \* HomePage state: dateId -> ordered task list
    dateId,     \* HomePage state: the active date
    messages,   \* Chatbot state: the transcript
    pc,         \* per submission: "idle" | "timer" | "bridge" | "done"
    line,       \* per submission: the submitted line
    snap,       \* per submission: the props closed over by its handleCommand
    confetti,   \* number of launchConfetti() calls so far
    uidNext,    \* next value returned by uid()
    resp,       \* per submission: how its bridge call settled
    tz,         \* the browser's time zone: west of / at UTC, or east of it
    ui,         \* number of planner (non-chat) actions taken
    arg,        \* harness: the inputs of the function under test
    out         \* harness: its result

vars == <<byDate, dateId, messages, pc, line, snap, resp, tz, ui, confetti, uidNext, arg, out>>

(***************************************************************************)
(* Bounds                                                                  *)
(***************************************************************************)
MaxLen == 2      \* harness: longest task list given to a function
MaxSubs == 2     \* chat submissions in one run
MaxText == 6     \* harness: longest response text given to extractToolJSON
MaxFields == 3   \* harness: most keyed fields in an add line
MaxUi == 1       \* planner (non-chat) actions in one run

(***************************************************************************)
(* Strings                                                                 *)
(***************************************************************************)
EmptyStr == << >>

Min(S) == CHOOSE m \in S : \A n \in S : m <= n

LowerChar(c) == IF c = "A" THEN "a" ELSE IF c = "B" THEN "b" ELSE c

toLowerCase(s) == [i \in 1..Len(s) |-> LowerChar(s[i])]

RECURSIVE trimStart(_)
trimStart(s) == IF s # << >> /\ Head(s) = " " THEN trimStart(Tail(s)) ELSE s

RECURSIVE trimEnd(_)
trimEnd(s) ==
    IF s # << >> /\ s[Len(s)] = " " THEN trimEnd(SubSeq(s, 1, Len(s) - 1)) ELSE s

trim(s) == trimEnd(trimStart(s))

startsWith(s, q) == Len(q) <= Len(s) /\ SubSeq(s, 1, Len(q)) = q

includes(s, q) ==
    \E i \in 0..Len(s) : i + Len(q) <= Len(s) /\ SubSeq(s, i + 1, i + Len(q)) = q

(***************************************************************************)
(* JSON values of a tool-call's fields                                     *)
(***************************************************************************)
Absent == [t |-> "absent"]
Num == [t |-> "num"]                    \* the number 5: truthy, not a string
Str(s) == [t |-> "str", v |-> s]
Bool(b) == [t |-> "bool", b |-> b]
Arr(e) == [t |-> "arr", e |-> e]

Truthy(x) ==
    \/ x.t = "num"
    \/ x.t = "arr"
    \/ x.t = "str" /\ x.v # EmptyStr
    \/ x.t = "bool" /\ x.b

\* (x || '')
OrEmpty(x) == IF Truthy(x) THEN x ELSE Str(EmptyStr)

\* String(x) for the values above
String(x) ==
    IF x.t = "str" THEN x.v
    ELSE IF x.t = "num" THEN <<"5">>
    ELSE IF x.t = "bool" THEN (IF x.b THEN <<"true">> ELSE <<"false">>)
    ELSE IF x.t = "absent" THEN <<"undefined">>
    ELSE EmptyStr

\* "D1", "D2": two consecutive calendar days; "DX": a string of the shape
\* dddd-dd-dd that is no calendar date (2025-13-45)
DateIds == {"D1", "D2", "DX"}

\* mutant: only the dates of the calendar pass
isDateLike_Calendar(s) == Len(s) = 1 /\ s[1] \in {"D1", "D2"}

isDateLike(s) == Len(s) = 1 /\ s[1] \in DateIds

(***************************************************************************)
(* Task Matcher                                                            *)
(***************************************************************************)
Undefined == [undef |-> TRUE]

find(arr, P(_)) ==
    LET I == {i \in 1..Len(arr) : P(arr[i])}
    IN  IF I = {} THEN Undefined ELSE arr[Min(I)]

\* mutant: one pass, the first task that contains the query
findTaskByText_NoTiers(tasks, query) ==
    LET q == trim(toLowerCase(query))
        substr(t) == includes(toLowerCase(t.text), q)
    IN  find(tasks, substr)

findTaskByText(tasks, query) ==
    LET q == trim(toLowerCase(query))
        exact(t) == toLowerCase(t.text) = q
        prefix(t) == startsWith(toLowerCase(t.text), q)
        substr(t) == includes(toLowerCase(t.text), q)
    IN  IF find(tasks, exact) # Undefined THEN find(tasks, exact)
        ELSE IF find(tasks, prefix) # Undefined THEN find(tasks, prefix)
        ELSE find(tasks, substr)

(***************************************************************************)
(* Tool-call payloads                                                      *)
(***************************************************************************)
NoTask == [text |-> Absent, time |-> Absent, priority |-> Absent,
           tags |-> Absent, notes |-> Absent, done |-> Absent]

NoChanges == [text |-> Absent, time |-> Absent, priority |-> Absent,
              tags |-> Absent, notes |-> Absent, done |-> Absent, id |-> Absent]

Tool(action) ==
    [kind |-> "object", action |-> action, task |-> NoTask, match |-> [text |-> Absent],
     changes |-> NoChanges, date |-> Absent, message |-> Absent]

Word(w) == Str(<<w>>)

(***************************************************************************)
(* Tool execution                                                          *)
(***************************************************************************)
Msg(k, s) == [k |-> k, s |-> s, n |-> 0]

MsgN(k, n) == [k |-> k, s |-> EmptyStr, n |-> n]

Result(ok, msg, calls) == [threw |-> FALSE, ok |-> ok, msg |-> msg, calls |-> calls]

\* .trim() on a value that is not a string: a TypeError leaves applyTool
Thrown == [threw |-> TRUE, ok |-> FALSE, msg |-> Msg("TypeError", EmptyStr), calls |-> << >>]

\* the calls applyTool makes on its props
CallUpdateTasks(next) == [fn |-> "updateTasks", next |-> next]
CallAddTaskFromFields(task) == [fn |-> "addTaskFromFields", task |-> task]
CallSetDateId(d) == [fn |-> "setDateId", d |-> d]
CallLaunchConfetti == [fn |-> "launchConfetti"]

ensurePriority(p) ==
    IF p.t = "str" /\ p.v \in {<<"low">>, <<"med">>, <<"high">>} THEN p ELSE Absent

SelectNonEmpty(ss) == SelectSeq(ss, LAMBDA x : x # EmptyStr)

ensureTags(tags) ==
    IF tags.t = "arr"
    THEN Arr(SelectNonEmpty([i \in 1..Len(tags.e) |-> String(tags.e[i])]))
    ELSE Absent

\* msg || fallback
MsgOr(message, k, s) == IF Truthy(message) THEN Msg("custom", String(message)) ELSE Msg(k, s)

NoPatch == [text |-> Absent, time |-> Absent, priority |-> Absent,
            tags |-> Absent, notes |-> Absent, done |-> Absent]

\* { ...x, ...patch }
Spread(x, patch) ==
    [id |-> x.id,
     text |-> IF patch.text.t = "absent" THEN x.text ELSE patch.text.v,
     time |-> IF patch.time.t = "absent" THEN x.time ELSE patch.time.v,
     priority |-> IF patch.priority.t = "absent" THEN x.priority ELSE patch.priority.v,
     tags |-> IF patch.tags.t = "absent" THEN x.tags ELSE patch.tags.e,
     notes |-> IF patch.notes.t = "absent" THEN x.notes ELSE patch.notes.v,
     done |-> IF patch.done.t = "absent" THEN x.done ELSE patch.done.b]

mapPatch(tasks, id, patch) ==
    [i \in 1..Len(tasks) |-> IF tasks[i].id = id THEN Spread(tasks[i], patch) ELSE tasks[i]]

filterOutId(tasks, id) == SelectSeq(tasks, LAMBDA x : x.id # id)

applyCreate(tool, tasks) ==
    LET t == tool.task
    IN  IF OrEmpty(t.text).t # "str" THEN Thrown
        ELSE LET text == trim(OrEmpty(t.text).v)
             IN  IF text = EmptyStr
                 THEN Result(FALSE, Msg("Create failed: task.text is required.", EmptyStr), << >>)
                 ELSE IF OrEmpty(t.time).t # "str" \/ OrEmpty(t.notes).t # "str" THEN Thrown
                 ELSE LET task == [text |-> text,
                                   time |-> trim(OrEmpty(t.time).v),
                                   priority |-> IF ensurePriority(t.priority) # Absent
                                                THEN t.priority.v ELSE <<"med">>,
                                   tags |-> IF ensureTags(t.tags) # Absent
                                            THEN ensureTags(t.tags).e ELSE << >>,
                                   notes |-> trim(OrEmpty(t.notes).v),
                                   done |-> IF t.done.t = "bool" THEN t.done.b ELSE FALSE]
                      IN  Result(TRUE, MsgOr(tool.message, "Added:", text),
                                 <<CallAddTaskFromFields(task)>>
                                 \o (IF task.done THEN <<CallLaunchConfetti>> ELSE << >>))

buildPatch(ch) ==
    [text |-> IF ch.text.t = "str" THEN Str(trim(ch.text.v)) ELSE Absent,
     time |-> IF ch.time.t = "str" THEN Str(trim(ch.time.v)) ELSE Absent,
     priority |-> IF ensurePriority(ch.priority) # Absent THEN ch.priority ELSE Absent,
     tags |-> IF ch.tags.t = "arr" THEN ensureTags(ch.tags) ELSE Absent,
     notes |-> IF ch.notes.t = "str" THEN Str(trim(ch.notes.v)) ELSE Absent,
     done |-> IF ch.done.t = "bool" THEN ch.done ELSE Absent]

applyUpdate(tool, tasks) ==
    LET m == tool.match
    IN  IF OrEmpty(m.text).t # "str" THEN Thrown
        ELSE LET q == trim(OrEmpty(m.text).v)
                 hit == findTaskByText(tasks, q)
                 patch == buildPatch(tool.changes)
             IN  IF q = EmptyStr
                 THEN Result(FALSE, Msg("Update failed: match.text is required.", EmptyStr), << >>)
                 ELSE IF hit = Undefined
                 THEN Result(FALSE, Msg("Update failed: No task found for", q), << >>)
                 ELSE Result(TRUE, MsgOr(tool.message, "Updated:", hit.text),
                             <<CallUpdateTasks(mapPatch(tasks, hit.id, patch))>>
                             \o (IF patch.done = Bool(TRUE)
                                 THEN <<CallLaunchConfetti>> ELSE << >>))

\* mutant: a miss is reported but the list is written back all the same
applyDelete_WriteOnMiss(tool, tasks) ==
    LET m == tool.match
    IN  IF OrEmpty(m.text).t # "str" THEN Thrown
        ELSE LET q == trim(OrEmpty(m.text).v)
                 hit == findTaskByText(tasks, q)
             IN  IF q = EmptyStr
                 THEN Result(FALSE, Msg("Delete failed: match.text is required.", EmptyStr), << >>)
                 ELSE IF hit = Undefined
                 THEN Result(FALSE, Msg("Delete failed: No task found for", q),
                             <<CallUpdateTasks(tasks)>>)
                 ELSE Result(TRUE, MsgOr(tool.message, "Deleted:", hit.text),
                             <<CallUpdateTasks(filterOutId(tasks, hit.id))>>)

applyDelete(tool, tasks) ==
    LET m == tool.match
    IN  IF OrEmpty(m.text).t # "str" THEN Thrown
        ELSE LET q == trim(OrEmpty(m.text).v)
                 hit == findTaskByText(tasks, q)
             IN  IF q = EmptyStr
                 THEN Result(FALSE, Msg("Delete failed: match.text is required.", EmptyStr), << >>)
                 ELSE IF hit = Undefined
                 THEN Result(FALSE, Msg("Delete failed: No task found for", q), << >>)
                 ELSE Result(TRUE, MsgOr(tool.message, "Deleted:", hit.text),
                             <<CallUpdateTasks(filterOutId(tasks, hit.id))>>)

\* mutant: no "already done" early return
applyComplete_NoDoneCheck(tool, tasks) ==
    LET m == tool.match
    IN  IF OrEmpty(m.text).t # "str" THEN Thrown
        ELSE LET q == trim(OrEmpty(m.text).v)
                 hit == findTaskByText(tasks, q)
             IN  IF q = EmptyStr
                 THEN Result(FALSE, Msg("Complete failed: match.text is required.", EmptyStr), << >>)
                 ELSE IF hit = Undefined
                 THEN Result(FALSE, Msg("Complete failed: No task found for", q), << >>)
                 ELSE Result(TRUE, MsgOr(tool.message, "Marked done:", hit.text),
                             <<CallUpdateTasks(mapPatch(tasks, hit.id,
                                   [NoPatch EXCEPT !.done = Bool(TRUE)])),
                               CallLaunchConfetti>>)

applyComplete(tool, tasks) ==
    LET m == tool.match
    IN  IF OrEmpty(m.text).t # "str" THEN Thrown
        ELSE LET q == trim(OrEmpty(m.text).v)
                 hit == findTaskByText(tasks, q)
             IN  IF q = EmptyStr
                 THEN Result(FALSE, Msg("Complete failed: match.text is required.", EmptyStr), << >>)
                 ELSE IF hit = Undefined
                 THEN Result(FALSE, Msg("Complete failed: No task found for", q), << >>)
                 ELSE IF hit.done
                 THEN Result(TRUE, Msg("Already done:", hit.text), << >>)
                 ELSE Result(TRUE, MsgOr(tool.message, "Marked done:", hit.text),
                             <<CallUpdateTasks(mapPatch(tasks, hit.id,
                                   [NoPatch EXCEPT !.done = Bool(TRUE)])),
                               CallLaunchConfetti>>)

applyUncomplete(tool, tasks) ==
    LET m == tool.match
    IN  IF OrEmpty(m.text).t # "str" THEN Thrown
        ELSE LET q == trim(OrEmpty(m.text).v)
                 hit == findTaskByText(tasks, q)
             IN  IF q = EmptyStr
                 THEN Result(FALSE, Msg("Uncomplete failed: match.text is required.", EmptyStr), << >>)
                 ELSE IF hit = Undefined
                 THEN Result(FALSE, Msg("Uncomplete failed: No task found for", q), << >>)
                 ELSE IF ~hit.done
                 THEN Result(TRUE, Msg("Already active:", hit.text), << >>)
                 ELSE Result(TRUE, MsgOr(tool.message, "Marked not done:", hit.text),
                             <<CallUpdateTasks(mapPatch(tasks, hit.id,
                                   [NoPatch EXCEPT !.done = Bool(FALSE)]))>>)

\* mutant: any non-empty date string is taken
applySwitchDate_NoShapeCheck(tool) ==
    IF OrEmpty(tool.date).t # "str" THEN Thrown
    ELSE LET d == trim(OrEmpty(tool.date).v)
         IN  IF d = EmptyStr
             THEN Result(FALSE, Msg("Switch failed: date must be YYYY-MM-DD.", EmptyStr), << >>)
             ELSE Result(TRUE, MsgOr(tool.message, "Switched to", d), <<CallSetDateId(d[1])>>)

applySwitchDate(tool) ==
    IF OrEmpty(tool.date).t # "str" THEN Thrown
    ELSE LET d == trim(OrEmpty(tool.date).v)
         IN  IF ~isDateLike(d)
             THEN Result(FALSE, Msg("Switch failed: date must be YYYY-MM-DD.", EmptyStr), << >>)
             ELSE Result(TRUE, MsgOr(tool.message, "Switched to", d), <<CallSetDateId(d[1])>>)

applyTool(tool, tasks) ==
    IF tool.kind # "object" \/ ~Truthy(tool.action)
    THEN Result(FALSE, Msg("Invalid tool payload.", EmptyStr), << >>)
    ELSE LET action == String(tool.action)
         IN  IF action = <<"create">> THEN applyCreate(tool, tasks)
             ELSE IF action = <<"update">> THEN applyUpdate(tool, tasks)
             ELSE IF action = <<"delete">> THEN applyDelete(tool, tasks)
             ELSE IF action = <<"complete">> THEN applyComplete(tool, tasks)
             ELSE IF action = <<"uncomplete">> THEN applyUncomplete(tool, tasks)
             ELSE IF action = <<"switch_date">> THEN applySwitchDate(tool)
             ELSE Result(FALSE, Msg("Unknown action:", action), << >>)

(***************************************************************************)
(* Tool-call extraction.  A response text is a sequence of: "x" (a prose    *)
(* character), " " (whitespace), "{" and "}", "FENCE" (3 backticks), "json" (the *)
(* word after an opening fence), "5" and "null" (JSON scalars), and the     *)
(* names of well-formed member lists, each standing for the tool-call       *)
(* object that JSON.parse builds from it.                                   *)
(***************************************************************************)
NullTool == [Tool(Absent) EXCEPT !.kind = "null"]

ScalarTool == [Tool(Absent) EXCEPT !.kind = "scalar"]

\* the member lists a response may carry, by name
Payloads ==
    [delA |-> [Tool(Word("delete")) EXCEPT !.match.text = Word("a")],
     doneA |-> [Tool(Word("complete")) EXCEPT !.match.text = Word("a")],
     updA |-> [Tool(Word("update")) EXCEPT !.match.text = Word("a"),
                                          !.changes.priority = Word("high")],
     addC |-> [Tool(Word("create")) EXCEPT !.task.text = Word("c"), !.task.done = Bool(TRUE)],
     toD2 |-> [Tool(Word("switch_date")) EXCEPT !.date = Word("D2")],
     delQ |-> [Tool(Word("delete")) EXCEPT !.match.text = Word("q")],
     numD |-> [Tool(Word("switch_date")) EXCEPT !.date = Num],
     numT |-> [Tool(Word("create")) EXCEPT !.task.text = Num, !.task.done = Bool(TRUE)],
     numM |-> [Tool(Word("complete")) EXCEPT !.match.text = Num],
     padD2 |-> [Tool(Word("switch_date")) EXCEPT !.date = Str(<<" ", "D2">>)],
     toX |-> [Tool(Word("switch_date")) EXCEPT !.date = Word("x")],
     updBlank |-> [Tool(Word("update")) EXCEPT !.match.text = Word("a"),
                                              !.changes.text = Str(<<" ">>)],
     bogus |-> Tool(Word("bogus"))]

PayloadNames == DOMAIN Payloads

noSpace(s) == SelectSeq(s, LAMBDA c : c # " ")

\* JSON.parse(raw): [ok, tool]
JSONparse(raw) ==
    LET r == noSpace(raw)
    IN  IF Len(r) = 3 /\ r[1] = "{" /\ r[2] \in PayloadNames /\ r[3] = "}"
        THEN [ok |-> TRUE, tool |-> Payloads[r[2]]]
        ELSE IF r = <<"{", "}">> THEN [ok |-> TRUE, tool |-> Tool(Absent)]
        ELSE IF r = <<"5">> THEN [ok |-> TRUE, tool |-> ScalarTool]
        ELSE IF r = <<"null">> THEN [ok |-> TRUE, tool |-> NullTool]
        ELSE [ok |-> FALSE, tool |-> NullTool]

\* the fenced-block pattern: the leftmost opening fence (three backticks and
\* the word json, in either case) that some later fence closes, and the
\* nearest such closing fence
FenceOpens(t) ==
    {i \in 1..Len(t) : /\ i + 1 <= Len(t)
                       /\ t[i] = "FENCE" /\ t[i + 1] \in {"json", "JSON"}
                       /\ \E j \in (i + 2)..Len(t) : t[j] = "FENCE"}

FenceOpen(t) == Min(FenceOpens(t))

FenceClose(t) == Min({j \in (FenceOpen(t) + 2)..Len(t) : t[j] = "FENCE"})

indexOf(t, c) == IF \E i \in 1..Len(t) : t[i] = c
                 THEN Min({i \in 1..Len(t) : t[i] = c}) ELSE 0

lastIndexOf(t, c) == IF \E i \in 1..Len(t) : t[i] = c
                     THEN CHOOSE i \in 1..Len(t) : t[i] = c /\ \A j \in (i + 1)..Len(t) : t[j] # c
                     ELSE 0

\* mutant: the span ends at the first "}" instead of the last
extractBraces_FirstClose(fullText) ==
    LET idx == indexOf(fullText, "{")
        lst == indexOf(fullText, "}")
    IN  IF idx # 0 /\ lst > idx /\ JSONparse(SubSeq(fullText, idx, lst)).ok
        THEN [tool |-> JSONparse(SubSeq(fullText, idx, lst)).tool,
              remainder |-> trim(SubSeq(fullText, 1, idx - 1)
                                 \o SubSeq(fullText, lst + 1, Len(fullText)))]
        ELSE [tool |-> NullTool, remainder |-> fullText]

\* step 2 of extractToolJSON: the span from the first "{" to the last "}"
extractBraces(fullText) ==
    LET idx == indexOf(fullText, "{")
        lst == lastIndexOf(fullText, "}")
    IN  IF idx # 0 /\ lst > idx /\ JSONparse(SubSeq(fullText, idx, lst)).ok
        THEN [tool |-> JSONparse(SubSeq(fullText, idx, lst)).tool,
              remainder |-> trim(SubSeq(fullText, 1, idx - 1)
                                 \o SubSeq(fullText, lst + 1, Len(fullText)))]
        ELSE [tool |-> NullTool, remainder |-> fullText]

\* mutant: a fenced block that fails to parse is repaired into a tool-call
extractToolJSON_Repair(fullText) ==
    IF fullText = EmptyStr THEN [tool |-> NullTool, remainder |-> fullText]
    ELSE IF FenceOpens(fullText) # {}
    THEN LET p == JSONparse(SubSeq(fullText, FenceOpen(fullText) + 2, FenceClose(fullText) - 1))
         IN  [tool |-> IF p.ok THEN p.tool ELSE Payloads.delA,
              remainder |-> trim(SubSeq(fullText, 1, FenceOpen(fullText) - 1)
                                 \o SubSeq(fullText, FenceClose(fullText) + 1, Len(fullText)))]
    ELSE extractBraces(fullText)

extractToolJSON(fullText) ==
    IF fullText = EmptyStr THEN [tool |-> NullTool, remainder |-> fullText]
    ELSE IF FenceOpens(fullText) # {}
            /\ JSONparse(SubSeq(fullText, FenceOpen(fullText) + 2, FenceClose(fullText) - 1)).ok
    THEN [tool |-> JSONparse(SubSeq(fullText, FenceOpen(fullText) + 2,
                                    FenceClose(fullText) - 1)).tool,
          remainder |-> trim(SubSeq(fullText, 1, FenceOpen(fullText) - 1)
                             \o SubSeq(fullText, FenceClose(fullText) + 1, Len(fullText)))]
    ELSE extractBraces(fullText)

(***************************************************************************)
(* The planner page (HomePage) and the effect of the props it hands to the  *)
(* chat on its state st = [byDate, dateId, confetti, uidNext].  A closure   *)
(* cl = [tasks, dateId] holds what the render that created the props saw.   *)
(***************************************************************************)
Task(id, text, done) ==
    [id |-> id, text |-> text, time |-> EmptyStr, priority |-> <<"med">>,
     tags |-> << >>, notes |-> EmptyStr, done |-> done]

\* mutant: the replacement is stored under the date active at that moment
updateTasks_ActiveDate(cl, st, next) == [st EXCEPT !.byDate[st.dateId] = next]

updateTasks(cl, st, next) == [st EXCEPT !.byDate[cl.dateId] = next]

\* mutant: the new task is put at the end of the list
addTaskFromFields_Append(cl, st, f) ==
    LET newTask == [id |-> st.uidNext, text |-> f.text, time |-> f.time,
                    priority |-> f.priority, tags |-> f.tags, notes |-> f.notes,
                    done |-> FALSE]
    IN  [updateTasks(cl, st, cl.tasks \o <<newTask>>) EXCEPT !.uidNext = @ + 1]

addTaskFromFields(cl, st, f) ==
    LET newTask == [id |-> st.uidNext, text |-> f.text, time |-> f.time,
                    priority |-> f.priority, tags |-> f.tags, notes |-> f.notes,
                    done |-> FALSE]
    IN  [updateTasks(cl, st, <<newTask>> \o cl.tasks) EXCEPT !.uidNext = @ + 1]

launchConfetti(st) == [st EXCEPT !.confetti = @ + 1]

\* mutant: nothing is filtered out
unfinishedOf_KeepAll(tasks) == tasks

unfinishedOf(tasks) == SelectSeq(tasks, LAMBDA t : ~t.done)

\* new Date(dateId + 'T00:00') is local midnight; a day later, read back in
\* UTC by toISOString(): the same date east of UTC, the next one otherwise.
\* "DX" is an Invalid Date, on which toISOString() raises a RangeError.
NextDayId(d, zone) ==
    IF d = "DX" THEN "RangeError"
    ELSE IF zone = "east" THEN d
    ELSE IF d = "D1" THEN "D2"
    ELSE "beyond"

\* [threw, st]
carryForward(cl, st, zone) ==
    LET unfinished == unfinishedOf(cl.tasks)
        nextId == NextDayId(cl.dateId, zone)
    IN  IF unfinished = << >> THEN [threw |-> FALSE, st |-> st]
        ELSE IF nextId = "RangeError" THEN [threw |-> TRUE, st |-> st]
        ELSE [threw |-> FALSE,
              st |-> [st EXCEPT !.byDate[nextId] = unfinished \o st.byDate[nextId]]]

\* the calls of an applyTool result, made in order through the closure
RECURSIVE Perform(_, _, _)
Perform(calls, cl, st) ==
    IF calls = << >> THEN st
    ELSE LET c == Head(calls)
             st1 == IF c.fn = "updateTasks" THEN updateTasks(cl, st, c.next)
                    ELSE IF c.fn = "addTaskFromFields" THEN addTaskFromFields(cl, st, c.task)
                    ELSE IF c.fn = "setDateId" THEN [st EXCEPT !.dateId = c.d]
                    ELSE launchConfetti(st)
         IN  Perform(Tail(calls), cl, st1)

(***************************************************************************)
(* The chat: handleCommand on a normalised line.  A line is the command it  *)
(* is recognised as, with its argument: [cmd, q] (q: the query of done and  *)
(* delete, the argument of switch), and for add the fields the scan yields. *)
(* The result is [st, replies, bridge, threw].                              *)
(***************************************************************************)
Line(cmd) == [cmd |-> cmd, q |-> EmptyStr, f |-> NoTask]

LineQ(cmd, q) == [cmd |-> cmd, q |-> q, f |-> NoTask]

LineAdd(text) ==
    [cmd |-> "add", q |-> EmptyStr,
     f |-> [text |-> text, time |-> EmptyStr, priority |-> <<"med">>,
            tags |-> << >>, notes |-> EmptyStr]]

Handled(st, reply) == [st |-> st, replies |-> <<reply>>, bridge |-> FALSE, threw |-> FALSE]

handleCommand(l, cl, st, zone) ==
    IF l.cmd \in {"help", "list", "whats left", "show done"}
    THEN Handled(st, Msg(l.cmd, EmptyStr))
    ELSE IF l.cmd = "clear done"
    THEN Handled(updateTasks(cl, st, unfinishedOf(cl.tasks)),
                 MsgN("Cleared", Len(cl.tasks) - Len(unfinishedOf(cl.tasks))))
    ELSE IF l.cmd = "carry forward"
    THEN IF carryForward(cl, st, zone).threw
         THEN [st |-> st, replies |-> << >>, bridge |-> FALSE, threw |-> TRUE]
         ELSE Handled(carryForward(cl, st, zone).st,
                      MsgN("Carried forward", Len(unfinishedOf(cl.tasks))))
    ELSE IF l.cmd = "switch"
    THEN IF isDateLike(l.q)
         THEN Handled([st EXCEPT !.dateId = l.q[1]], Msg("Switched to", l.q))
         ELSE Handled(st, Msg("Please provide a date as YYYY-MM-DD", EmptyStr))
    ELSE IF l.cmd = "today"
    THEN Handled([st EXCEPT !.dateId = "D1"], Msg("Switched to today", <<"D1">>))
    ELSE IF l.cmd = "tomorrow"
    THEN Handled([st EXCEPT !.dateId = "D2"], Msg("Switched to tomorrow", <<"D2">>))
    ELSE IF l.cmd = "done"
    THEN LET hit == findTaskByText(cl.tasks, l.q)
         IN  IF hit = Undefined THEN Handled(st, Msg("Couldn't find a task matching", l.q))
             ELSE Handled(launchConfetti(updateTasks(cl, st,
                              mapPatch(cl.tasks, hit.id, [NoPatch EXCEPT !.done = Bool(TRUE)]))),
                          Msg("Marked as done:", hit.text))
    ELSE IF l.cmd = "delete"
    THEN LET hit == findTaskByText(cl.tasks, l.q)
         IN  IF hit = Undefined THEN Handled(st, Msg("Couldn't find a task matching", l.q))
             ELSE Handled(updateTasks(cl, st, filterOutId(cl.tasks, hit.id)),
                          Msg("Deleted:", hit.text))
    ELSE IF l.cmd = "add"
    THEN IF l.f.text = EmptyStr THEN Handled(st, Msg("Please include task text", EmptyStr))
         ELSE Handled(addTaskFromFields(cl, st, l.f), Msg("Added:", l.f.text))
    ELSE IF l.cmd = "greeting"
    THEN Handled(st, Msg("Hello!", <<cl.dateId>>))
    ELSE [st |-> st, replies |-> << >>, bridge |-> TRUE, threw |-> FALSE]

\* mutant: a non-success response is read like a successful one
askAI_ErrorAsText(r, cl, st) ==
    IF r.kind = "network"
    THEN [st |-> st, reply |-> Msg("(Network error)", r.text), rest |-> EmptyStr]
    ELSE LET x == extractToolJSON(r.text)
             result == applyTool(x.tool, cl.tasks)
         IN  IF x.tool.kind # "null"
             THEN IF result.threw
                  THEN [st |-> st, reply |-> Msg("(Network error)", <<"TypeError">>),
                        rest |-> EmptyStr]
                  ELSE [st |-> Perform(result.calls, cl, st), reply |-> result.msg,
                        rest |-> x.remainder]
             ELSE [st |-> st,
                   reply |-> IF x.remainder # EmptyStr THEN Msg("plain", x.remainder)
                             ELSE Msg("plain", <<"...">>),
                   rest |-> EmptyStr]

\* askAI once the bridge call has settled with r = [kind, text]:
\* kind "http" (a non-success response), "network" (fetch rejected), "ok"
askAI(r, cl, st) ==
    IF r.kind = "http" THEN [st |-> st, reply |-> Msg("(AI error)", r.text), rest |-> EmptyStr]
    ELSE IF r.kind = "network"
    THEN [st |-> st, reply |-> Msg("(Network error)", r.text), rest |-> EmptyStr]
    ELSE LET x == extractToolJSON(r.text)
             result == applyTool(x.tool, cl.tasks)
         IN  IF x.tool.kind # "null"
             THEN IF result.threw
                  THEN [st |-> st, reply |-> Msg("(Network error)", <<"TypeError">>),
                        rest |-> EmptyStr]
                  ELSE [st |-> Perform(result.calls, cl, st), reply |-> result.msg,
                        rest |-> x.remainder]
             ELSE [st |-> st,
                   reply |-> IF x.remainder # EmptyStr THEN Msg("plain", x.remainder)
                             ELSE Msg("plain", <<"...">>),
                   rest |-> EmptyStr]

(***************************************************************************)
(* The scan of an add command.  The rest of the line after "add " is a     *)
(* sequence of words, one space between neighbours; the empty word "" is   *)
(* what a replacement by a single space leaves, so two spaces in a row.    *)
(* "T" is a word of the shape dd:dd, "a,b" a word with a comma in it.      *)
(***************************************************************************)
TimeWords == {"T"}

PriorityWords == {"low", "med", "high"}

\* the characters of the words i..j of r are at least one
HasChar(r, i, j) == j > i \/ (j = i /\ r[i] # "")

\* where each pattern matches: the word that starts the match
timeAt(r) == {i \in 1..(Len(r) - 1) : r[i] = "time" /\ r[i + 1] \in TimeWords}

prioAt(r) == {i \in 1..(Len(r) - 1) : r[i] = "priority" /\ r[i + 1] \in PriorityWords}

tagsAt(r) == {i \in 1..(Len(r) - 1) : r[i] = "tags" /\ HasChar(r, i + 1, Len(r))}

notesAt(r) == {i \in 1..(Len(r) - 1) : r[i] = "notes" /\ HasChar(r, i + 1, Len(r))}

\* the last word of the lazy capture after "tags" at i: it stops before the
\* first " notes " that leaves it a character, and at the end otherwise
tagsEnd(r, i) ==
    LET stops == {j \in (i + 2)..(Len(r) - 1) : r[j] = "notes" /\ HasChar(r, i + 1, j - 1)}
    IN  IF stops = {} THEN Len(r) ELSE Min(stops) - 1

WordChars(w) == IF w = "a,b" THEN <<"a", ",", "b">> ELSE IF w = "" THEN << >> ELSE <<w>>

\* the string the words spell
RECURSIVE Join(_)
Join(r) ==
    IF r = << >> THEN EmptyStr
    ELSE IF Len(r) = 1 THEN WordChars(r[1])
    ELSE WordChars(r[1]) \o <<" ">> \o Join(Tail(r))

\* s.split(',')
RECURSIVE split(_)
split(s) ==
    IF indexOf(s, ",") = 0 THEN <<s>>
    ELSE <<SubSeq(s, 1, indexOf(s, ",") - 1)>> \o split(SubSeq(s, indexOf(s, ",") + 1, Len(s)))

\* rest.replace(pattern, ' ') for a match on the words i..j
ReplaceWords(r, i, j) ==
    SubSeq(r, 1, i - 1) \o (IF i = 1 THEN <<"", "">> ELSE <<"">>) \o SubSeq(r, j + 1, Len(r))

\* the fields scanned from the rest of an add line, and the title left over
parseAdd(rest) ==
    LET time == IF timeAt(rest) = {} THEN EmptyStr ELSE <<rest[Min(timeAt(rest)) + 1]>>
        priority == IF prioAt(rest) = {} THEN <<"med">>
                    ELSE toLowerCase(<<rest[Min(prioAt(rest)) + 1]>>)
        tagsRaw == IF tagsAt(rest) = {} THEN << >>
                   ELSE split(Join(SubSeq(rest, Min(tagsAt(rest)) + 1,
                                          tagsEnd(rest, Min(tagsAt(rest))))))
        tags == SelectNonEmpty([i \in 1..Len(tagsRaw) |-> trim(tagsRaw[i])])
        notes == IF notesAt(rest) = {} THEN EmptyStr
                 ELSE trim(Join(SubSeq(rest, Min(notesAt(rest)) + 1, Len(rest))))
        r1 == IF timeAt(rest) = {} THEN rest
              ELSE ReplaceWords(rest, Min(timeAt(rest)), Min(timeAt(rest)) + 1)
        r2 == IF prioAt(r1) = {} THEN r1
              ELSE ReplaceWords(r1, Min(prioAt(r1)), Min(prioAt(r1)) + 1)
        r3 == IF tagsAt(r2) = {} THEN r2
              ELSE ReplaceWords(r2, Min(tagsAt(r2)), tagsEnd(r2, Min(tagsAt(r2))))
        r4 == IF notesAt(r3) = {} THEN r3
              ELSE ReplaceWords(r3, Min(notesAt(r3)), Len(r3))
    IN  [text |-> trim(Join(r4)), time |-> time, priority |-> priority,
         tags |-> tags, notes |-> notes]

\* the add line with the rest given word by word
LineAddRest(rest) == [cmd |-> "add", q |-> EmptyStr, f |-> parseAdd(rest)]

NotCalled == [called |-> FALSE]

Idle == [s \in 1..MaxSubs |-> "idle"]

(***************************************************************************)
(* Spec: the planner and the chat together.  A submission s is "idle"       *)
(* (not made yet), "timer" (onSubmit ran, handleCommand is due), "bridge"   *)
(* (fetch is pending) or "done".                                            *)
(***************************************************************************)
Subs == 1..MaxSubs

Lines ==
    {Line("help"), Line("whats left"), Line("greeting"),
     Line("clear done"), Line("carry forward"),
     LineQ("switch", <<"D2">>), LineQ("switch", <<"DX">>), LineQ("switch", <<"x">>),
     Line("tomorrow"),
     LineQ("done", <<"a">>), LineQ("done", <<"q">>), LineQ("delete", <<"a">>),
     LineAdd(<<"c">>), LineAdd(EmptyStr),
     Line("ask")}

Fenced(p) == <<"x", "FENCE", "json", "{", p, "}", "FENCE">>

Responses ==
    {Fenced(p) : p \in PayloadNames}
    \cup {<<"x", "{", "updA", "}">>,
          <<"x">>, EmptyStr,
          <<"x", "}", "x", "{">>,
          <<"FENCE", "json", "{", "delA", "FENCE">>,
          <<"FENCE", "json", "{", "delA", "FENCE", "x", "{", "toD2", "}">>,
          <<"FENCE", "json", "5", "FENCE">>,
          <<"FENCE", "json", "null", "FENCE", "x">>}

Settlements ==
    {[kind |-> "http", text |-> <<"e">>], [kind |-> "http", text |-> EmptyStr],
     [kind |-> "network", text |-> <<"e">>]}
    \cup {[kind |-> "ok", text |-> t] : t \in Responses}

NoLine == Line("none")

NoClosure == [tasks |-> << >>, dateId |-> "none"]

NoResp == [kind |-> "none", text |-> EmptyStr]

Entry(role, s, msg, rest) == [role |-> role, sub |-> s, msg |-> msg, rest |-> rest]

Greeting == Entry("assistant", 0, Msg("Hi!", EmptyStr), EmptyStr)

St == [byDate |-> byDate, dateId |-> dateId, confetti |-> confetti, uidNext |-> uidNext]

\* the props of the latest render
Current == [tasks |-> byDate[dateId], dateId |-> dateId]

SetSt(st) ==
    /\ byDate' = st.byDate
    /\ dateId' = st.dateId
    /\ confetti' = st.confetti
    /\ uidNext' = st.uidNext

Init ==
    /\ byDate = [d \in DateIds |->
                    IF d = "D1" THEN <<Task(1, <<"a", "b">>, FALSE), Task(2, <<"b">>, TRUE)>>
                    ELSE << >>]
    /\ dateId = "D1"
    /\ messages = <<Greeting>>
    /\ pc = Idle
    /\ line = [s \in Subs |-> NoLine]
    /\ snap = [s \in Subs |-> NoClosure]
    /\ resp = [s \in Subs |-> NoResp]
    /\ tz \in {"west", "east"}
    /\ ui = 0
    /\ confetti = 0
    /\ uidNext = 3
    /\ arg = EmptyStr
    /\ out = NotCalled

\* mutant: a submission starts the transcript afresh
Submit_Restart(s, l) ==
    /\ pc[s] = "idle"
    /\ \A r \in Subs : r < s => pc[r] # "idle"
    /\ l.cmd = "carry forward" => NextDayId(dateId, tz) # "beyond"
    /\ messages' = <<Entry("user", s, Msg(l.cmd, l.q), EmptyStr)>>
    /\ pc' = [pc EXCEPT ![s] = "timer"]
    /\ line' = [line EXCEPT ![s] = l]
    /\ snap' = [snap EXCEPT ![s] = Current]
    /\ UNCHANGED <<byDate, dateId, resp, tz, ui, confetti, uidNext, arg, out>>

\* onSubmit: the line is echoed, handleCommand of this render is scheduled
Submit(s, l) ==
    /\ pc[s] = "idle"
    /\ \A r \in Subs : r < s => pc[r] # "idle"
    /\ l.cmd = "carry forward" => NextDayId(dateId, tz) # "beyond"
    /\ messages' = Append(messages, Entry("user", s, Msg(l.cmd, l.q), EmptyStr))
    /\ pc' = [pc EXCEPT ![s] = "timer"]
    /\ line' = [line EXCEPT ![s] = l]
    /\ snap' = [snap EXCEPT ![s] = Current]
    /\ UNCHANGED <<byDate, dateId, resp, tz, ui, confetti, uidNext, arg, out>>

\* the timer fires: handleCommand runs a command to its end, or calls the bridge
Timer(s) ==
    /\ pc[s] = "timer"
    /\ \A r \in Subs : r < s => pc[r] # "timer"
    /\ LET h == handleCommand(line[s], snap[s], St, tz)
       IN  /\ SetSt(h.st)
           /\ messages' = messages \o [i \in 1..Len(h.replies) |->
                                          Entry("assistant", s, h.replies[i], EmptyStr)]
           /\ pc' = [pc EXCEPT ![s] = IF h.bridge THEN "bridge" ELSE "done"]
    /\ UNCHANGED <<line, snap, resp, tz, ui, arg, out>>

\* mutant: a call that failed is made again
Settle_Retry(s, r) ==
    /\ pc[s] = "bridge"
    /\ LET a == askAI(r, snap[s], St)
       IN  /\ SetSt(a.st)
           /\ messages' = Append(messages, Entry("assistant", s, a.reply, a.rest))
    /\ pc' = [pc EXCEPT ![s] = IF r.kind = "ok" THEN "done" ELSE "bridge"]
    /\ resp' = [resp EXCEPT ![s] = r]
    /\ UNCHANGED <<line, snap, tz, ui, arg, out>>

\* mutant: an exception of the executor is not caught, nothing is appended
Settle_Uncaught(s, r) ==
    /\ pc[s] = "bridge"
    /\ LET a == askAI(r, snap[s], St)
       IN  /\ SetSt(a.st)
           /\ messages' = IF a.reply.k = "(Network error)" /\ r.kind = "ok"
                          THEN messages
                          ELSE Append(messages, Entry("assistant", s, a.reply, a.rest))
    /\ pc' = [pc EXCEPT ![s] = "done"]
    /\ resp' = [resp EXCEPT ![s] = r]
    /\ UNCHANGED <<line, snap, tz, ui, arg, out>>

\* the bridge call settles and askAI runs to its end
Settle(s, r) ==
    /\ pc[s] = "bridge"
    /\ LET a == askAI(r, snap[s], St)
       IN  /\ SetSt(a.st)
           /\ messages' = Append(messages, Entry("assistant", s, a.reply, a.rest))
    /\ pc' = [pc EXCEPT ![s] = "done"]
    /\ resp' = [resp EXCEPT ![s] = r]
    /\ UNCHANGED <<line, snap, tz, ui, arg, out>>

\* the planner's own controls, acting on the latest render
UiAddTask ==
    /\ ui < MaxUi
    /\ SetSt(addTaskFromFields(Current, St, LineAdd(<<"c">>).f))
    /\ ui' = ui + 1
    /\ UNCHANGED <<messages, pc, line, snap, resp, tz, arg, out>>

UiToggleTask(id) ==
    /\ ui < MaxUi
    /\ \E i \in 1..Len(byDate[dateId]) : byDate[dateId][i].id = id
    /\ LET tasks == byDate[dateId]
           next == [i \in 1..Len(tasks) |->
                       IF tasks[i].id = id THEN [tasks[i] EXCEPT !.done = ~@] ELSE tasks[i]]
           wasUndone == \E i \in 1..Len(tasks) : tasks[i].id = id /\ ~tasks[i].done
       IN  SetSt(IF wasUndone THEN launchConfetti(updateTasks(Current, St, next))
                 ELSE updateTasks(Current, St, next))
    /\ ui' = ui + 1
    /\ UNCHANGED <<messages, pc, line, snap, resp, tz, arg, out>>

UiRemoveTask(id) ==
    /\ ui < MaxUi
    /\ \E i \in 1..Len(byDate[dateId]) : byDate[dateId][i].id = id
    /\ SetSt(updateTasks(Current, St, filterOutId(byDate[dateId], id)))
    /\ ui' = ui + 1
    /\ UNCHANGED <<messages, pc, line, snap, resp, tz, arg, out>>

UiSetDate(d) ==
    /\ ui < MaxUi
    /\ d # dateId
    /\ dateId' = d
    /\ ui' = ui + 1
    /\ UNCHANGED <<byDate, messages, pc, line, snap, resp, tz, confetti, uidNext, arg, out>>

UiCarryForward ==
    /\ ui < MaxUi
    /\ NextDayId(dateId, tz) \in DateIds
    /\ unfinishedOf(byDate[dateId]) # << >>
    /\ SetSt(carryForward(Current, St, tz).st)
    /\ ui' = ui + 1
    /\ UNCHANGED <<messages, pc, line, snap, resp, tz, arg, out>>

Next ==
    \/ \E s \in Subs : \E l \in Lines : Submit(s, l)
    \/ \E s \in Subs : Timer(s)
    \/ \E s \in Subs : \E r \in Settlements : Settle(s, r)
    \/ UiAddTask
    \/ \E id \in 1..(uidNext - 1) : UiToggleTask(id)
    \/ \E id \in 1..(uidNext - 1) : UiRemoveTask(id)
    \/ \E d \in {"D1", "D2"} : UiSetDate(d)
    \/ UiCarryForward

Spec == Init /\ [][Next]_vars

(***************************************************************************)
(* Properties of the chat and the planner together                         *)
(***************************************************************************)
UserAt(s) == {i \in 1..Len(messages) : messages[i].role = "user" /\ messages[i].sub = s}

AssistantAt(s) == {i \in 1..Len(messages) :
                      messages[i].role = "assistant" /\ messages[i].sub = s}

\* the props a render at commit time would hand to submission s, for its date
Fresh(s) == [tasks |-> byDate[snap[s].dateId], dateId |-> snap[s].dateId]

\* C1: whenever a command or a tool-call of a submission commits a
\* replacement list, the replacement is the one computed from the store's
\* list at commit time, so nothing changed since submission is lost
C1_CommitFromCurrentList ==
    [][\A s \in Subs :
          /\ (pc[s] = "timer" /\ pc'[s] = "done" /\ byDate' # byDate) =>
                 byDate' = handleCommand(line[s], Fresh(s), St, tz).st.byDate
          /\ (pc[s] = "bridge" /\ pc'[s] = "done" /\ byDate' # byDate) =>
                 byDate' = askAI(resp'[s], Fresh(s), St).st.byDate]_vars

\* C2: a submitted line has exactly one user entry; once its handling has
\* ended it has exactly one assistant entry, after the user entry, whatever
\* other lines are pending; before that it has none
C2_OneReplyPerLine ==
    \A s \in Subs :
        /\ pc[s] # "idle" => Cardinality(UserAt(s)) = 1
        /\ pc[s] \in {"timer", "bridge"} => AssistantAt(s) = {}
        /\ pc[s] = "done" =>
               /\ Cardinality(AssistantAt(s)) = 1
               /\ \A i \in UserAt(s) : \A j \in AssistantAt(s) : i < j

BridgeFailures == {"http", "network"}

ErrorKinds == {"(AI error)", "(Network error)"}

\* C3: a submission whose bridge call fails appends exactly one assistant
\* entry, an error description, and changes no list and not the active date:
\* not when the call is made, not when it fails, and nothing is added later
C3_BridgeFailureIsolated ==
    [][\A s \in Subs :
          /\ (pc[s] = "timer" /\ pc'[s] = "bridge") =>
                 /\ byDate' = byDate /\ dateId' = dateId
                 /\ messages' = messages
          /\ (pc[s] = "bridge" /\ pc'[s] = "done" /\ resp'[s].kind \in BridgeFailures) =>
                 /\ byDate' = byDate /\ dateId' = dateId
                 /\ AssistantAt(s) = {}
                 /\ Len(messages') = Len(messages) + 1
                 /\ SubSeq(messages', 1, Len(messages)) = messages
                 /\ messages'[Len(messages')].role = "assistant"
                 /\ messages'[Len(messages')].sub = s
                 /\ messages'[Len(messages')].msg.k \in ErrorKinds
          /\ (pc[s] = "done" /\ resp[s].kind \in BridgeFailures) =>
                 \A i \in 1..Len(messages') :
                     (messages'[i].role = "assistant" /\ messages'[i].sub = s)
                         => i \in AssistantAt(s)]_vars

\* the second line's call failed while the first line's call was pending
C3_Witness ==
    /\ pc[1] = "bridge" /\ pc[2] = "done"
    /\ resp[2].kind = "network"
    /\ messages[Len(messages)].sub = 2
    /\ messages[Len(messages)].msg.k = "(Network error)"

\* no fenced block and no brace span of the text parses
AnyFenceParses(t) ==
    \E i \in 1..Len(t) : \E j \in 1..Len(t) :
        /\ i + 1 < j
        /\ t[i] = "FENCE" /\ t[i + 1] \in {"json", "JSON"} /\ t[j] = "FENCE"
        /\ JSONparse(SubSeq(t, i + 2, j - 1)).ok

AnySpanParses(t) ==
    \E i \in 1..Len(t) : \E j \in 1..Len(t) :
        i < j /\ t[i] = "{" /\ t[j] = "}" /\ JSONparse(SubSeq(t, i, j)).ok

NoParse(t) == ~AnyFenceParses(t) /\ ~AnySpanParses(t)

PlainStep(s, shown) ==
    /\ byDate' = byDate /\ dateId' = dateId
    /\ messages' = Append(messages, Entry("assistant", s, Msg("plain", shown), EmptyStr))

\* C4 as stated: a response text of which nothing parses changes no list
\* and not the active date, and the text itself is appended as a plain reply
C4_NoParsePlainReply_Original ==
    [][\A s \in Subs :
          (pc[s] = "bridge" /\ pc'[s] = "done" /\ resp'[s].kind = "ok"
              /\ NoParse(resp'[s].text))
          => PlainStep(s, resp'[s].text)]_vars

\* C4: a response text of which nothing parses changes no list and not the
\* active date; the text is appended as a plain reply, and a placeholder of
\* three dots in its place when the text is empty
C4_NoParsePlainReply ==
    [][\A s \in Subs :
          (pc[s] = "bridge" /\ pc'[s] = "done" /\ resp'[s].kind = "ok"
              /\ NoParse(resp'[s].text))
          => PlainStep(s, IF resp'[s].text = EmptyStr THEN <<"...">> ELSE resp'[s].text)]_vars

\* a fenced block that does not parse was shown as it came, fence and all
C4_Witness ==
    \E s \in Subs :
        /\ pc[s] = "done" /\ resp[s].kind = "ok"
        /\ NoParse(resp[s].text)
        /\ \E i \in 1..Len(resp[s].text) : resp[s].text[i] = "FENCE"
        /\ \E j \in AssistantAt(s) : messages[j].msg = Msg("plain", resp[s].text)

\* the props of submission s are those a render at commit time would hand it
InSync(s) == snap[s].tasks = byDate[snap[s].dateId]

WithoutAt(list, i) == SubSeq(list, 1, i - 1) \o SubSeq(list, i + 1, Len(list))

\* C11: a successful delete, by the delete command or by a delete tool-call,
\* leaves the previous list with exactly one element removed, the matched
\* task: one shorter, the other tasks as they were and in their order
C11_DeleteRemovesOne ==
    [][\A s \in Subs :
          LET d == snap[s].dateId
              hitCmd == findTaskByText(snap[s].tasks, line[s].q)
              hitTool == findTaskByText(snap[s].tasks, <<"a">>)
              RemovedOne(hit) ==
                  \E i \in 1..Len(byDate[d]) :
                      byDate[d][i] = hit /\ byDate'[d] = WithoutAt(byDate[d], i)
          IN  /\ (/\ pc[s] = "timer" /\ pc'[s] = "done"
                  /\ line[s].cmd = "delete"
                  /\ InSync(s)
                  /\ hitCmd # Undefined) => RemovedOne(hitCmd)
              /\ (/\ pc[s] = "bridge" /\ pc'[s] = "done"
                  /\ resp'[s].kind = "ok"
                  /\ extractToolJSON(resp'[s].text).tool = Payloads.delA
                  /\ InSync(s)
                  /\ hitTool # Undefined) => RemovedOne(hitTool)]_vars

\* C16: the transcript of a state extends the transcript of the state
\* before: entries are appended at the end, none is changed, moved or removed
C16_TranscriptAppendOnly ==
    [][/\ Len(messages') >= Len(messages)
       /\ SubSeq(messages', 1, Len(messages)) = messages]_vars

\* a command was submitted and answered while a bridge call was pending, and
\* the reply of the pending line came last
C16_Witness ==
    /\ Len(messages) = 5
    /\ messages[2].role = "user" /\ messages[2].sub = 1
    /\ messages[3].role = "user" /\ messages[3].sub = 2
    /\ messages[4].role = "assistant" /\ messages[4].sub = 2
    /\ messages[5].role = "assistant" /\ messages[5].sub = 1

\* the commands handleCommand handles itself
DeterministicCmds ==
    {"help", "list", "whats left", "show done", "clear done", "carry forward", "switch",
     "today", "tomorrow", "done", "delete", "add", "greeting"}

\* C17: the bridge call of a submission is made when handleCommand runs, if
\* and only if the line is none of the deterministic commands; once the call
\* has settled, failed or not, the handling has ended and no call is made again
C17_BridgeOncePerFallthrough ==
    [][\A s \in Subs :
          /\ (pc[s] = "timer" /\ pc'[s] # "timer") =>
                 pc'[s] = IF line[s].cmd \in DeterministicCmds THEN "done" ELSE "bridge"
          /\ (pc[s] # "bridge" /\ pc'[s] = "bridge") => pc[s] = "timer"
          /\ (pc[s] = "bridge" /\ resp'[s] # resp[s]) => pc'[s] = "done"
          /\ (pc[s] = "bridge" /\ pc'[s] # "bridge") =>
                 (pc'[s] = "done" /\ resp'[s] # NoResp)
          /\ pc[s] = "done" => (pc'[s] = "done" /\ resp'[s] = resp[s])]_vars

\* a line that went to the bridge once and failed, and a command that did not
C17_Witness ==
    /\ pc[1] = "done" /\ line[1].cmd \notin DeterministicCmds
    /\ resp[1].kind = "network"
    /\ pc[2] = "done" /\ line[2].cmd = "clear done"
    /\ resp[2] = NoResp

\* C18: the reply of a deterministic command follows the echo of its line
\* at once: no entry of another submission lies between them
C18_DeterministicAtomic ==
    \A s \in Subs :
        (pc[s] = "done" /\ line[s].cmd \in DeterministicCmds) =>
            \A i \in UserAt(s) : \A j \in AssistantAt(s) : j = i + 1

\* C20: the done command on a matched task that is not done marks it done
\* and signals the celebration; on a matched task that is done already it
\* writes nothing and signals nothing, and appends a confirmation
C20_DoneCommand ==
    [][\A s \in Subs :
          LET d == snap[s].dateId
              hit == findTaskByText(snap[s].tasks, line[s].q)
          IN  (/\ pc[s] = "timer" /\ pc'[s] = "done"
               /\ line[s].cmd = "done"
               /\ InSync(s)
               /\ hit # Undefined)
              => /\ Len(messages') = Len(messages) + 1
                 /\ IF hit.done
                    THEN byDate' = byDate /\ confetti' = confetti
                    ELSE /\ confetti' = confetti + 1
                         /\ \E i \in 1..Len(byDate[d]) :
                                byDate[d][i] = hit /\ byDate'[d][i] = [hit EXCEPT !.done = TRUE]]_vars

C22_CarryForward ==
    [][\A s \in Subs :
          LET moved == SelectSeq(byDate[dateId], LAMBDA t : ~t.done)
          IN  (/\ pc[s] = "timer" /\ pc'[s] = "done"
               /\ line[s].cmd = "carry forward"
               /\ snap[s] = Current
               /\ moved # << >>)
              => /\ Len(messages') = Len(messages) + 1
                 /\ messages'[Len(messages')].msg = MsgN("Carried forward", Len(moved))
                 /\ dateId = "D1" => byDate'["D2"] = moved \o byDate["D2"]]_vars

\* C22 in the zones west of UTC and on the dates of the calendar
C22_CarryForward_West ==
    [][\A s \in Subs :
          LET moved == SelectSeq(byDate[dateId], LAMBDA t : ~t.done)
          IN  (/\ pc[s] = "timer" /\ pc'[s] = "done"
               /\ line[s].cmd = "carry forward"
               /\ snap[s] = Current
               /\ moved # << >>
               /\ tz = "west" /\ dateId # "DX")
              => /\ Len(messages') = Len(messages) + 1
                 /\ messages'[Len(messages')].msg = MsgN("Carried forward", Len(moved))
                 /\ dateId = "D1" => byDate'["D2"] = moved \o byDate["D2"]]_vars

\* C23: carry forward, handled on the props of the latest render, removes
\* no task from the active date: its list is after the command what it was
C23_CarryForwardKeepsSource ==
    [][\A s \in Subs :
          (/\ pc[s] = "timer" /\ pc'[s] = "done"
           /\ line[s].cmd = "carry forward"
           /\ snap[s] = Current)
          => byDate'[dateId] = byDate[dateId]]_vars

\* C23 in the zones west of UTC
C23_CarryForwardKeepsSource_West ==
    [][\A s \in Subs :
          (/\ pc[s] = "timer" /\ pc'[s] = "done"
           /\ line[s].cmd = "carry forward"
           /\ snap[s] = Current
           /\ tz = "west")
          => byDate'[dateId] = byDate[dateId]]_vars

\* C24 as stated: the switch command and a switch_date tool-call with a
\* string date set the active date to the argument if and only if the
\* argument has the shape YYYY-MM-DD ("DX", no date of the calendar,
\* included); otherwise the active date stays and a format error is replied;
\* in both cases no list changes
C24_SwitchByShape_Original ==
    [][\A s \in Subs :
          LET tool == extractToolJSON(resp'[s].text).tool
              byCmd == pc[s] = "timer" /\ pc'[s] = "done" /\ line[s].cmd = "switch"
              byTool == /\ pc[s] = "bridge" /\ pc'[s] = "done" /\ resp'[s].kind = "ok"
                        /\ tool.kind = "object" /\ tool.action = Word("switch_date")
                        /\ tool.date.t = "str"
              a == IF byCmd THEN line[s].q ELSE tool.date.v
              last == messages'[Len(messages')].msg
          IN  (byCmd \/ byTool)
              => /\ byDate' = byDate
                 /\ Len(messages') = Len(messages) + 1
                 /\ IF a \in {<<d>> : d \in DateIds}
                    THEN dateId' = a[1] /\ last = Msg("Switched to", a)
                    ELSE /\ dateId' = dateId
                         /\ last.k \in {"Please provide a date as YYYY-MM-DD",
                                        "Switch failed: date must be YYYY-MM-DD."}]_vars

\* C24: as above, where the argument is the date with the whitespace
\* around it trimmed off
C24_SwitchByShape ==
    [][\A s \in Subs :
          LET tool == extractToolJSON(resp'[s].text).tool
              byCmd == pc[s] = "timer" /\ pc'[s] = "done" /\ line[s].cmd = "switch"
              byTool == /\ pc[s] = "bridge" /\ pc'[s] = "done" /\ resp'[s].kind = "ok"
                        /\ tool.kind = "object" /\ tool.action = Word("switch_date")
                        /\ tool.date.t = "str"
              a == IF byCmd THEN line[s].q
                   ELSE trim(tool.date.v)
              last == messages'[Len(messages')].msg
          IN  (byCmd \/ byTool)
              => /\ byDate' = byDate
                 /\ Len(messages') = Len(messages) + 1
                 /\ IF a \in {<<d>> : d \in DateIds}
                    THEN dateId' = a[1] /\ last = Msg("Switched to", a)
                    ELSE /\ dateId' = dateId
                         /\ last.k \in {"Please provide a date as YYYY-MM-DD",
                                        "Switch failed: date must be YYYY-MM-DD."}]_vars

\* the command took a date that is none of the calendar, then a tool-call
\* with a padded date took the page to the date inside the padding
C24_Witness ==
    /\ pc[1] = "done" /\ line[1] = LineQ("switch", <<"DX">>)
    /\ \E j \in AssistantAt(1) : messages[j].msg = Msg("Switched to", <<"DX">>)
    /\ pc[2] = "done" /\ resp[2] = [kind |-> "ok", text |-> Fenced("padD2")]
    /\ dateId = "D2"
    /\ byDate = [d \in DateIds |->
                    IF d = "D1" THEN <<Task(1, <<"a", "b">>, FALSE), Task(2, <<"b">>, TRUE)>>
                    ELSE << >>]

\* C25: in every reachable state no two tasks of one date's list have the
\* same id
C25_UniqueIdsPerDate ==
    \A d \in DateIds :
        \A i, j \in 1..Len(byDate[d]) : byDate[d][i].id = byDate[d][j].id => i = j

\* C26: in every reachable state every stored task has a text that is not
\* empty
C26_NonEmptyText ==
    \A d \in DateIds : \A i \in 1..Len(byDate[d]) : byDate[d][i].text # EmptyStr

\* C27: a command or a tool-call of a submission that changes a list changes
\* the list of the date its props were made for, the date of the list the
\* replacement was computed from, whatever date is active by then; the list
\* of any other date is changed by carry forward alone
C27_WriteUnderOwnDate ==
    [][\A s \in Subs :
          /\ (pc[s] = "timer" /\ pc'[s] # "timer" /\ line[s].cmd # "carry forward") =>
                 \A d \in DateIds \ {snap[s].dateId} : byDate'[d] = byDate[d]
          /\ (pc[s] = "bridge" /\ pc'[s] = "done") =>
                 \A d \in DateIds \ {snap[s].dateId} : byDate'[d] = byDate[d]]_vars

\* a task was added by a line submitted on the first date and handled after
\* the page had gone to the second: it is on the first date's list
C27_Witness ==
    \E s \in Subs :
        /\ pc[s] = "done" /\ line[s] = LineAdd(<<"c">>)
        /\ snap[s].dateId = "D1" /\ dateId = "D2"
        /\ byDate["D1"] = <<Task(3, <<"c">>, FALSE)>> \o snap[s].tasks
        /\ byDate["D2"] = << >>

\* C28: a tool-call that parses and carries a number where the executor
\* reads a string (task.text of create, match.text of update, delete,
\* complete and uncomplete, date of switch_date) changes no list and not the
\* active date and signals no celebration, and its submission ends with one
\* assistant entry, the only one it has
C28_WrongTypeIsolated ==
    [][\A s \in Subs :
          LET tool == extractToolJSON(resp'[s].text).tool
              wrongType ==
                  /\ tool.kind = "object"
                  /\ \/ tool.action = Word("create") /\ tool.task.text.t = "num"
                     \/ /\ tool.action \in {Word("update"), Word("delete"),
                                            Word("complete"), Word("uncomplete")}
                        /\ tool.match.text.t = "num"
                     \/ tool.action = Word("switch_date") /\ tool.date.t = "num"
          IN  /\ (pc[s] = "bridge" /\ pc'[s] = "done" /\ resp'[s].kind = "ok" /\ wrongType) =>
                     /\ byDate' = byDate /\ dateId' = dateId /\ confetti' = confetti
                     /\ AssistantAt(s) = {}
                     /\ Len(messages') = Len(messages) + 1
                     /\ SubSeq(messages', 1, Len(messages)) = messages
                     /\ messages'[Len(messages')].role = "assistant"
                     /\ messages'[Len(messages')].sub = s
              /\ pc[s] = "done" =>
                     \A i \in 1..Len(messages') :
                         (messages'[i].role = "assistant" /\ messages'[i].sub = s)
                             => i \in AssistantAt(s)]_vars

\* a create whose task.text is a number and whose done is true, answered to
\* the first line while the second was pending: one reply, nothing changed
C28_Witness ==
    /\ pc[1] = "done" /\ pc[2] = "bridge"
    /\ resp[1] = [kind |-> "ok", text |-> Fenced("numT")]
    /\ Cardinality(AssistantAt(1)) = 1
    /\ \E j \in AssistantAt(1) : messages[j].msg.k = "(Network error)"
    /\ byDate["D1"] = <<Task(1, <<"a", "b">>, FALSE), Task(2, <<"b">>, TRUE)>>
    /\ dateId = "D1"
    /\ confetti = 0

(***************************************************************************)
(* Inputs of the function harnesses                                        *)
(***************************************************************************)
Lists(pool, n) == UNION {[1..k -> pool] : k \in 0..n}

\* in the shape of "run", "run5k", "morning run", "RUN", "morning"
MatchTexts == {<<"a">>, <<"a", "b">>, <<"b", "a">>, <<"A">>, <<"b">>}

MatchTasks == {Task(id, text, FALSE) : id \in {1, 2}, text \in MatchTexts}

Queries == {EmptyStr, <<" ">>, <<"a">>, <<"A">>, <<" ", "a">>, <<"b">>, <<"a", "b">>, <<"c">>}


\* the planner and the transcript, held still while a function is exercised
Frozen ==
    /\ byDate = [d \in DateIds |-> << >>]
    /\ dateId = "D1"
    /\ messages = << >>
    /\ pc = Idle
    /\ line = [s \in 1..MaxSubs |-> EmptyStr]
    /\ snap = [s \in 1..MaxSubs |-> EmptyStr]
    /\ resp = [s \in 1..MaxSubs |-> EmptyStr]
    /\ tz = "west"
    /\ ui = 0
    /\ confetti = 0
    /\ uidNext = 1

mainVars == <<byDate, dateId, messages, pc, line, snap, resp, tz, ui, confetti, uidNext>>

(***************************************************************************)
(* SpecMatch: findTaskByText on every list and query of the bounds         *)
(***************************************************************************)
InitMatch ==
    /\ Frozen
    /\ arg \in [tasks : Lists(MatchTasks, MaxLen), query : Queries]
    /\ out = NotCalled

CallMatch ==
    /\ out = NotCalled
    /\ out' = [called |-> TRUE, hit |-> findTaskByText(arg.tasks, arg.query)]
    /\ UNCHANGED <<arg, mainVars>>

SpecMatch == InitMatch /\ [][CallMatch]_vars

\* the positions of arg.tasks matching the normalised query in each tier
NormQuery == trim(toLowerCase(arg.query))
ExactAt == {i \in 1..Len(arg.tasks) : toLowerCase(arg.tasks[i].text) = NormQuery}
PrefixAt == {i \in 1..Len(arg.tasks) :
                \E n \in 0..Len(arg.tasks[i].text) :
                    SubSeq(toLowerCase(arg.tasks[i].text), 1, n) = NormQuery}
SubstrAt == {i \in 1..Len(arg.tasks) :
                \E m \in 1..(Len(arg.tasks[i].text) + 1) : \E n \in 0..Len(arg.tasks[i].text) :
                    SubSeq(toLowerCase(arg.tasks[i].text), m, n) = NormQuery}

\* C7: for a query that is non-empty once trimmed, the matcher returns the
\* first task whose lower-cased text equals the lower-cased, trimmed query;
\* failing that the first whose text starts with it; failing that the first
\* whose text contains it; and no task when none contains it.  An exact
\* match wins over an earlier prefix or substring match.
C7_MatchPrecedence ==
    (out.called /\ NormQuery # EmptyStr) =>
        /\ ExactAt # {} => out.hit = arg.tasks[Min(ExactAt)]
        /\ (ExactAt = {} /\ PrefixAt # {}) => out.hit = arg.tasks[Min(PrefixAt)]
        /\ (ExactAt = {} /\ PrefixAt = {} /\ SubstrAt # {}) => out.hit = arg.tasks[Min(SubstrAt)]
        /\ SubstrAt = {} => out.hit = Undefined

\* an exact match at position 2 is returned although position 1 matches by prefix
C7_Witness ==
    /\ out.called
    /\ NormQuery # EmptyStr
    /\ Len(arg.tasks) >= 2
    /\ 1 \in PrefixAt /\ 1 \notin ExactAt /\ 2 \in ExactAt
    /\ out.hit = arg.tasks[2]

\* C8: the matcher returns no task when the query is empty or whitespace-only
C8_EmptyQueryNeverMatches ==
    (out.called /\ trim(arg.query) = EmptyStr) => out.hit = Undefined

(***************************************************************************)
(* SpecTool: applyTool on every list and tool-call of the bounds, then     *)
(* once more on the list the first call left                               *)
(***************************************************************************)
MixedTags == Arr(<<Word("g"), Num, Str(EmptyStr)>>)

MatchVals == {Absent, Num, Str(EmptyStr), Str(<<" ">>), Word("a"), Str(<<" ", "A">>), Word("c")}

MessageVals == {Absent, Word("m")}

MatchTools ==
    {[Tool(Word(a)) EXCEPT !.match.text = q, !.message = m] :
        a \in {"delete", "complete", "uncomplete"}, q \in MatchVals, m \in MessageVals}

RestVals == {NoChanges,
             [NoChanges EXCEPT !.time = Word("t"), !.tags = MixedTags,
                               !.notes = Str(<<"n", " ">>), !.id = Num]}

UpdateTools ==
    {[Tool(Word("update")) EXCEPT !.match.text = q,
                                   !.changes = [r EXCEPT !.text = x, !.priority = p, !.done = d]] :
        q \in {Num, Str(<<" ">>), Word("a"), Word("c")},
        r \in RestVals,
        x \in {Absent, Num, Str(<<"b", " ">>)},
        p \in {Absent, Word("low"), Word("xx")},
        d \in {Absent, Bool(TRUE), Bool(FALSE), Word("yes")}}

CreateTools ==
    {[Tool(Word("create")) EXCEPT !.task = [NoTask EXCEPT !.text = x, !.time = h, !.priority = p,
                                                          !.tags = g, !.done = d]] :
        x \in {Absent, Num, Str(<<" ">>), Str(<<" ", "a">>)},
        h \in {Absent, Num, Word("t")},
        p \in {Absent, Word("high"), Word("xx")},
        g \in {Absent, Num, MixedTags},
        d \in {Absent, Bool(TRUE), Word("yes")}}

DateVals == {Absent, Num, Word("D2"), Str(<<" ", "D2">>), Str(<<"D2", "x">>), Word("x")}

SwitchTools ==
    {[Tool(Word("switch_date")) EXCEPT !.date = d, !.message = m] :
        d \in DateVals, m \in MessageVals}

BadTools ==
    {[Tool(Absent) EXCEPT !.kind = "scalar"],
     [Tool(Word("delete")) EXCEPT !.kind = "scalar"],
     Tool(Absent), Tool(Str(EmptyStr)), Tool(Num), Tool(Word("bogus")),
     [Tool(Word("bogus")) EXCEPT !.match.text = Word("a"), !.date = Word("D2")]}

Tools == MatchTools \cup UpdateTools \cup CreateTools \cup SwitchTools \cup BadTools

ToolTasks == {Task(id, text, done) :
                 id \in {1, 2}, text \in {<<"a", "b">>, <<"b">>}, done \in BOOLEAN}

\* the list a caller holds after the calls of a result: updateTasks replaces it
ListAfter(tasks, res) ==
    IF \E i \in 1..Len(res.calls) : res.calls[i].fn = "updateTasks"
    THEN res.calls[Min({i \in 1..Len(res.calls) : res.calls[i].fn = "updateTasks"})].next
    ELSE tasks

InitTool ==
    /\ Frozen
    /\ arg \in [tasks : Lists(ToolTasks, MaxLen), tool : Tools]
    /\ out = NotCalled

CallTool ==
    /\ out = NotCalled
    /\ out' = [called |-> TRUE, again |-> FALSE, res |-> applyTool(arg.tool, arg.tasks)]
    /\ UNCHANGED <<arg, mainVars>>

CallToolAgain ==
    /\ out.called /\ ~out.again
    /\ out' = [called |-> TRUE, again |-> TRUE, res |-> out.res,
               res2 |-> applyTool(arg.tool, ListAfter(arg.tasks, out.res))]
    /\ UNCHANGED <<arg, mainVars>>

NextTool == CallTool \/ CallToolAgain

SpecTool == InitTool /\ [][NextTool]_vars

(***************************************************************************)
(* Properties of applyTool                                                 *)
(***************************************************************************)
IsCall(a) ==
    /\ arg.tool.kind = "object"
    /\ Truthy(arg.tool.action)
    /\ String(arg.tool.action) = <<a>>

IsMatchCall == IsCall("update") \/ IsCall("delete") \/ IsCall("complete") \/ IsCall("uncomplete")

\* absent, empty or whitespace-only
Blank(x) == x.t = "absent" \/ (x.t = "str" /\ \A i \in 1..Len(x.v) : x.v[i] = " ")

\* a string with something other than whitespace in it
Filled(x) == x.t = "str" /\ \E i \in 1..Len(x.v) : x.v[i] # " "

MatchQuery == trim(arg.tool.match.text.v)

Contains(text, q) ==
    \E m \in 1..(Len(text) + 1) : \E n \in 0..Len(text) :
        SubSeq(toLowerCase(text), m, n) = toLowerCase(q)

NotFoundKinds == {"Update failed: No task found for", "Delete failed: No task found for",
                  "Complete failed: No task found for", "Uncomplete failed: No task found for"}

ConfettiIn(calls) == Cardinality({i \in 1..Len(calls) : calls[i].fn = "launchConfetti"})

\* C5: an update, delete, complete or uncomplete tool-call whose (non-blank)
\* match.text is contained in no task's text returns ok=false with a
\* message quoting the trimmed query, and makes no call on the store or the
\* celebration: the list is left as it was.
C5_NoMatchNoMutation ==
    (/\ out.called
     /\ IsMatchCall
     /\ Filled(arg.tool.match.text)
     /\ \A i \in 1..Len(arg.tasks) : ~Contains(arg.tasks[i].text, MatchQuery))
    => /\ ~out.res.threw
       /\ ~out.res.ok
       /\ out.res.msg.k \in NotFoundKinds
       /\ out.res.msg.s = MatchQuery
       /\ out.res.calls = << >>
       /\ ListAfter(arg.tasks, out.res) = arg.tasks

\* a delete for "c" on a non-empty list none of whose texts contains "c"
C5_Witness ==
    /\ out.called
    /\ IsCall("delete")
    /\ arg.tool.match.text = Word("c")
    /\ Len(arg.tasks) = MaxLen
    /\ ~out.res.ok
    /\ out.res.msg = Msg("Delete failed: No task found for", <<"c">>)

KnownActions == {<<"create">>, <<"update">>, <<"delete">>, <<"complete">>,
                 <<"uncomplete">>, <<"switch_date">>}

NoAction ==
    \/ arg.tool.kind # "object"
    \/ ~Truthy(arg.tool.action)
    \/ String(arg.tool.action) \notin KnownActions

\* a date that is missing, or a string that is not of the shape YYYY-MM-DD
BadDate(x) == x.t = "absent" \/ (x.t = "str" /\ ~isDateLike(x.v))

\* the same, judged once surrounding whitespace is trimmed off the string
BadDateTrimmed(x) == x.t = "absent" \/ (x.t = "str" /\ ~isDateLike(trim(x.v)))

\* C6 as stated: a tool-call that is not an object, has no or an unrecognised
\* action, has an empty or whitespace-only task.text (create) or match.text
\* (update, delete, complete, uncomplete), or a date (string) that is not of
\* the shape YYYY-MM-DD (switch_date) returns ok=false and makes no call that
\* changes a list or the active date.
C6_InvalidRejected_Original ==
    (/\ out.called
     /\ \/ NoAction
        \/ IsCall("create") /\ Blank(arg.tool.task.text)
        \/ IsMatchCall /\ Blank(arg.tool.match.text)
        \/ IsCall("switch_date") /\ BadDate(arg.tool.date))
    => /\ ~out.res.threw
       /\ ~out.res.ok
       /\ out.res.calls = << >>

\* C6 (amended): as above, where the date string of a switch_date is not of
\* the shape YYYY-MM-DD once surrounding whitespace is trimmed off it.
C6_InvalidRejected ==
    (/\ out.called
     /\ \/ NoAction
        \/ IsCall("create") /\ Blank(arg.tool.task.text)
        \/ IsMatchCall /\ Blank(arg.tool.match.text)
        \/ IsCall("switch_date") /\ BadDateTrimmed(arg.tool.date))
    => /\ ~out.res.threw
       /\ ~out.res.ok
       /\ out.res.calls = << >>

\* a switch_date whose date has the right shape followed by another character
C6_Witness ==
    /\ out.called
    /\ IsCall("switch_date")
    /\ arg.tool.date = Str(<<"D2", "x">>)
    /\ arg.tasks # << >>
    /\ out.res = Result(FALSE, Msg("Switch failed: date must be YYYY-MM-DD.", EmptyStr), << >>)

MatchedTask == findTaskByText(arg.tasks, MatchQuery)

\* C9: complete on a matched task that is done, and uncomplete on a matched
\* task that is not done, return ok=true and make no call (no store write,
\* no celebration); so complete or uncomplete applied again to the list the
\* first application left makes no call, leaves that list as it is, and the
\* celebration is signalled at most once over both.
C9_CompleteIdempotent ==
    /\ (/\ out.called
        /\ IsCall("complete")
        /\ Filled(arg.tool.match.text)
        /\ MatchedTask # Undefined
        /\ MatchedTask.done)
       => (out.res.ok /\ ~out.res.threw /\ out.res.calls = << >>)
    /\ (/\ out.called
        /\ IsCall("uncomplete")
        /\ Filled(arg.tool.match.text)
        /\ MatchedTask # Undefined
        /\ ~MatchedTask.done)
       => (out.res.ok /\ ~out.res.threw /\ out.res.calls = << >>)
    /\ (/\ out.called
        /\ out.again
        /\ IsCall("complete") \/ IsCall("uncomplete"))
       => /\ out.res2.calls = << >>
          /\ out.res2.ok = out.res.ok
          /\ ListAfter(ListAfter(arg.tasks, out.res), out.res2) = ListAfter(arg.tasks, out.res)
          /\ ConfettiIn(out.res.calls) + ConfettiIn(out.res2.calls) <= 1

\* complete applied twice to a task that was not done: one write and one
\* celebration the first time, none the second
C9_Witness ==
    /\ out.called
    /\ out.again
    /\ IsCall("complete")
    /\ Filled(arg.tool.match.text)
    /\ MatchedTask # Undefined
    /\ ~MatchedTask.done
    /\ ConfettiIn(out.res.calls) = 1
    /\ ListAfter(arg.tasks, out.res) # arg.tasks
    /\ out.res2 = Result(TRUE, Msg("Already done:", MatchedTask.text), << >>)

MatchedAt == Min({i \in 1..Len(arg.tasks) : arg.tasks[i] = MatchedTask})

ValidPriority(x) == x \in {Word("low"), Word("med"), Word("high")}

\* what the changes of the tool-call make of task x, field by field
Changed(x) ==
    LET ch == arg.tool.changes
    IN  [id |-> x.id,
         text |-> IF ch.text.t = "str" THEN trim(ch.text.v) ELSE x.text,
         time |-> IF ch.time.t = "str" THEN trim(ch.time.v) ELSE x.time,
         priority |-> IF ValidPriority(ch.priority) THEN ch.priority.v ELSE x.priority,
         tags |-> IF ch.tags.t = "arr"
                  THEN SelectSeq([i \in 1..Len(ch.tags.e) |-> String(ch.tags.e[i])],
                                 LAMBDA g : Len(g) > 0)
                  ELSE x.tags,
         notes |-> IF ch.notes.t = "str" THEN trim(ch.notes.v) ELSE x.notes,
         done |-> IF ch.done.t = "bool" THEN ch.done.b ELSE x.done]

\* C10: a successful update changes, on the matched task only, exactly the
\* fields present in changes that pass their type/enum check; invalid values
\* and unknown keys are dropped while the call still succeeds; the task's
\* id, its position, the list length and every other task stay as they were.
C10_UpdateFrame ==
    (/\ out.called
     /\ IsCall("update")
     /\ Filled(arg.tool.match.text)
     /\ MatchedTask # Undefined)
    => /\ out.res.ok
       /\ Len(ListAfter(arg.tasks, out.res)) = Len(arg.tasks)
       /\ \A j \in 1..Len(arg.tasks) :
            ListAfter(arg.tasks, out.res)[j] =
                IF j = MatchedAt THEN Changed(arg.tasks[j]) ELSE arg.tasks[j]

UniqueIds(tasks) == \A i, j \in 1..Len(tasks) : tasks[i].id = tasks[j].id => i = j

\* C10 on the lists in which no id occurs twice
C10_UpdateFrame_UniqueIds == UniqueIds(arg.tasks) => C10_UpdateFrame

(***************************************************************************)
(* Properties of create: the calls of applyTool made on a page whose       *)
(* active date "D1" holds arg.tasks, through the props of that render      *)
(***************************************************************************)
PropsBefore == [tasks |-> arg.tasks, dateId |-> "D1"]

\* uid() returns an id that no task carries: ids of arg.tasks are below 3
PageBefore ==
    [byDate |-> [d \in DateIds |-> IF d = "D1" THEN arg.tasks ELSE << >>],
     dateId |-> "D1", confetti |-> 0, uidNext |-> 3]

PageAfter == Perform(out.res.calls, PropsBefore, PageBefore)

Created == out.called /\ IsCall("create") /\ ~out.res.threw /\ out.res.ok

StringTags(g) ==
    IF g.t = "arr"
    THEN LET strs == SelectSeq(g.e, LAMBDA x : x.t = "str" /\ x.v # EmptyStr)
         IN  [i \in 1..Len(strs) |-> strs[i].v]
    ELSE << >>

\* C13: the task a successful create stores has the sanitized payload
\* values: text, time and notes trimmed, priority the payload's when it is
\* low/med/high and med otherwise, tags the payload's non-empty strings,
\* done true exactly when the payload's is true; the celebration is
\* signalled only for a task stored as done
C13_CreateStoresPayload ==
    Created =>
        LET new == Head(PageAfter.byDate["D1"])
            t == arg.tool.task
        IN  /\ new.text = trim(OrEmpty(t.text).v)
            /\ new.time = trim(OrEmpty(t.time).v)
            /\ new.notes = trim(OrEmpty(t.notes).v)
            /\ new.priority = IF ValidPriority(t.priority) THEN t.priority.v ELSE <<"med">>
            /\ new.tags = StringTags(t.tags)
            /\ new.done = (t.done = Bool(TRUE))
            /\ ConfettiIn(out.res.calls) > 0 => new.done

(***************************************************************************)
(* SpecExtract: extractToolJSON on every text of the bounds                *)
(***************************************************************************)
TextChars == {"x", "{", "}", "FENCE", "json", "delA"}

InitExtract ==
    /\ Frozen
    /\ arg \in [text : Lists(TextChars, MaxText)]
    /\ out = NotCalled

CallExtract ==
    /\ out = NotCalled
    /\ out' = [called |-> TRUE, res |-> extractToolJSON(arg.text)]
    /\ UNCHANGED <<arg, mainVars>>

SpecExtract == InitExtract /\ [][CallExtract]_vars

\* the text has a fenced json block and its interior fails to parse
FencedFails(t) ==
    /\ FenceOpens(t) # {}
    /\ ~JSONparse(SubSeq(t, FenceOpen(t) + 2, FenceClose(t) - 1)).ok

\* C14: when the interior of the fenced json block fails to parse, a payload
\* the extractor returns is never parsed from characters of that block: the
\* brace span it was parsed from lies wholly before or wholly after the block
C14_NoRescanOfFailedBlock ==
    (out.called /\ FencedFails(arg.text) /\ out.res.tool # NullTool)
    => \/ lastIndexOf(arg.text, "}") < FenceOpen(arg.text)
       \/ indexOf(arg.text, "{") > FenceClose(arg.text)

\* no open brace, no close brace, the last close brace before the first open
\* brace, or a span from the first open to the last close brace that fails
NoBraceSpan(t) ==
    \/ indexOf(t, "{") = 0
    \/ lastIndexOf(t, "}") = 0
    \/ lastIndexOf(t, "}") < indexOf(t, "{")
    \/ ~JSONparse(SubSeq(t, indexOf(t, "{"), lastIndexOf(t, "}"))).ok

\* C15: for a text without fenced block that has no brace span that parses,
\* the extractor returns no payload and the original text as the remainder
C15_NoSpanNoPayload ==
    (out.called /\ FenceOpens(arg.text) = {} /\ NoBraceSpan(arg.text))
    => out.res = [tool |-> NullTool, remainder |-> arg.text]

\* "hello } world {": the braces are there, in the wrong order
C15_Witness ==
    /\ out.called
    /\ arg.text = <<"x", "}", "x", "{">>
    /\ out.res = [tool |-> NullTool, remainder |-> <<"x", "}", "x", "{">>]

(***************************************************************************)
(* SpecAdd: two add lines with the same title and the same keyed fields,   *)
(* the fields in one order and in another, each handled on an empty list   *)
(***************************************************************************)
Titles == {<<"m">>, <<"m", "k">>}

FieldGroups == {<<"time", "T">>, <<"priority", "high">>, <<"tags", "g">>,
                <<"tags", "a,b">>, <<"notes", "n">>}

\* up to MaxFields fields, no key twice
FieldOrders ==
    {s \in Lists(FieldGroups, MaxFields) :
        \A i, j \in 1..Len(s) : s[i][1] = s[j][1] => i = j}

RECURSIVE Flatten(_)
Flatten(s) == IF s = << >> THEN << >> ELSE Head(s) \o Flatten(Tail(s))

Range(s) == {s[i] : i \in 1..Len(s)}

EmptyPage ==
    [byDate |-> [d \in DateIds |-> << >>], dateId |-> "D1", confetti |-> 0, uidNext |-> 1]

\* the fields of the task that the add line with this rest adds
AddedBy(rest) ==
    LET h == handleCommand(LineAddRest(rest), [tasks |-> << >>, dateId |-> "D1"],
                           EmptyPage, "west")
        list == h.st.byDate["D1"]
    IN  IF list = << >> THEN [added |-> FALSE]
        ELSE [added |-> TRUE, text |-> list[1].text, time |-> list[1].time,
              priority |-> list[1].priority, tags |-> list[1].tags, notes |-> list[1].notes]

InitAdd ==
    /\ Frozen
    /\ arg \in {r \in [title : Titles, a : FieldOrders, b : FieldOrders] :
                   Range(r.a) = Range(r.b)}
    /\ out = NotCalled

CallAdd ==
    /\ out = NotCalled
    /\ out' = [called |-> TRUE,
               a |-> AddedBy(arg.title \o Flatten(arg.a)),
               b |-> AddedBy(arg.title \o Flatten(arg.b))]
    /\ UNCHANGED <<arg, mainVars>>

SpecAdd == InitAdd /\ [][CallAdd]_vars

\* C19: add lines with the same title and the same keyed fields, listed in
\* different orders after the title, add tasks with the same text, time,
\* priority, tags and notes
C19_AddOrderIrrelevant == out.called => (out.a.added /\ out.b.added /\ out.a = out.b)

====
